---- MODULE Spec2Model ----
(***************************************************************************)
(* Model of FullscreenImageZoom (src/unnamed/part_000, the same class as   *)
(* src/script.js): the zoom/pan transform state, the bounds policy and the *)
(* mouse / wheel / touch / keyboard handlers that drive it.                *)
(*                                                                         *)
(* Numbers.  JavaScript numbers are modelled as exact rationals <<n, d>>   *)
(* in lowest terms with d > 0, extended with the three IEEE specials the   *)
(* code can produce when it divides by a zero natural size:                *)
(*   <<1, 0>> = +Infinity, <<-1, 0>> = -Infinity, <<0, 0>> = NaN.          *)
(* Rounding of IEEE doubles is not modelled: every finite result is exact. *)
(***************************************************************************)
EXTENDS Integers, Sequences, FiniteSets, TLC

VARIABLES this, window, imageElement, dom, touches, last, pre, session, grab, steps

vars == <<this, window, imageElement, dom, touches, last, pre, session, grab, steps>>

(***************************************************************************)
(* Number arithmetic                                                       *)
(***************************************************************************)
Abs(n) == IF n < 0 THEN -n ELSE n

Sign(n) == IF n < 0 THEN -1 ELSE IF n > 0 THEN 1 ELSE 0

RECURSIVE Gcd(_, _)
Gcd(a, b) == IF b = 0 THEN a ELSE Gcd(b, a % b)

\* the number n/d (d >= 0) in lowest terms; d = 0 gives an IEEE special
Norm(n, d) ==
  IF d = 0 THEN <<Sign(n), 0>>
  ELSE LET g == Gcd(Abs(n), d) IN <<n \div g, d \div g>>

R(n) == <<n, 1>>

NaN == <<0, 0>>

Infinity == <<1, 0>>

IsFinite(a) == a[2] # 0

IsNaN(a) == a = NaN

Neg(a) == <<-a[1], a[2]>>

\* a + b
Add(a, b) ==
  IF IsNaN(a) \/ IsNaN(b) THEN NaN
  ELSE IF ~IsFinite(a) /\ ~IsFinite(b) THEN (IF a = b THEN a ELSE NaN)
  ELSE IF ~IsFinite(a) THEN a
  ELSE IF ~IsFinite(b) THEN b
  ELSE LET g == Gcd(a[2], b[2])
           l == (a[2] \div g) * b[2]
       IN  Norm(a[1] * (b[2] \div g) + b[1] * (a[2] \div g), l)

\* a - b
Sub(a, b) == Add(a, Neg(b))

\* a * b
Mul(a, b) ==
  IF IsNaN(a) \/ IsNaN(b) THEN NaN
  ELSE IF ~IsFinite(a) \/ ~IsFinite(b)
       THEN <<Sign(a[1]) * Sign(b[1]), 0>>
  ELSE LET g1 == Gcd(Abs(a[1]), b[2])
           g2 == Gcd(Abs(b[1]), a[2])
       IN  Norm((a[1] \div g1) * (b[1] \div g2), (a[2] \div g2) * (b[2] \div g1))

\* a / b; every divisor in the program is >= +0, so x / 0 has the sign of x
Div(a, b) ==
  IF IsNaN(a) \/ IsNaN(b) THEN NaN
  ELSE IF ~IsFinite(b) THEN (IF IsFinite(a) THEN R(0) ELSE NaN)
  ELSE IF b[1] = 0 THEN <<Sign(a[1]), 0>>
  ELSE IF ~IsFinite(a) THEN <<Sign(a[1]) * Sign(b[1]), 0>>
  ELSE Mul(a, IF b[1] > 0 THEN <<b[2], b[1]>> ELSE <<-b[2], -b[1]>>)

\* a < b, false when either is NaN
Lt(a, b) ==
  /\ ~IsNaN(a)
  /\ ~IsNaN(b)
  /\ IF IsFinite(a) /\ IsFinite(b) THEN Sub(a, b)[1] < 0
     ELSE IF IsFinite(a) THEN b = Infinity
     ELSE IF IsFinite(b) THEN a = Neg(Infinity)
     ELSE a = Neg(Infinity) /\ b = Infinity

\* a <= b, false when either is NaN
Le(a, b) == ~IsNaN(a) /\ ~IsNaN(b) /\ ~Lt(b, a)

\* Math.max(a, b)
MathMax(a, b) ==
  IF IsNaN(a) \/ IsNaN(b) THEN NaN ELSE IF Lt(a, b) THEN b ELSE a

\* Math.min(a, b)
MathMin(a, b) ==
  IF IsNaN(a) \/ IsNaN(b) THEN NaN ELSE IF Lt(b, a) THEN b ELSE a

\* the integer r in lo..hi with r * r = n, by bisection
RECURSIVE Root(_, _, _)
Root(n, lo, hi) ==
  IF lo = hi THEN lo
  ELSE IF ((lo + hi) \div 2) * ((lo + hi) \div 2) >= n
       THEN Root(n, lo, (lo + hi) \div 2)
       ELSE Root(n, (lo + hi) \div 2 + 1, hi)

\* Math.hypot(dx, dy) for integer dx, dy whose hypotenuse is an integer
MathHypot(dx, dy) == R(Root(dx * dx + dy * dy, 0, Abs(dx) + Abs(dy)))

(***************************************************************************)
(* Configuration set by the constructor                                    *)
(***************************************************************************)
maxZoom == 5

zoomStep == <<1, 2>>

absoluteMinZoom == <<1, 4>>

\* the 0.5 of the constructor's minZoom and of calculateInitialScale
configuredMinZoom == <<1, 2>>

minVisibleArea == 100

\* pixels an arrow key pans by
arrowStep == 50

(***************************************************************************)
(* Bounds of the model                                                     *)
(***************************************************************************)
\* number of events handled in one behaviour of Spec
MaxSteps == 3

\* number of events handled in one behaviour of SpecGesture
MaxGestureSteps == 5

\* natural sizes of the image: same aspect as the window (cover scale 1/2),
\* wider than the window, so large that the cover scale is below
\* absoluteMinZoom, and so small that it is above maxZoom
ImageSizes == {<<1600, 1200>>, <<1600, 800>>, <<6400, 4800>>, <<100, 100>>}

\* the natural sizes of SpecGesture
GestureImageSizes == {<<1600, 800>>}

\* the most calls of the geometry mapping in a behaviour of SpecMapper
MaxMapperSteps == 1

\* the zooms and the translations (on each axis) the geometry mapping is
\* applied under in SpecMapper
MapperZooms == {<<1, 4>>, <<3, 4>>, <<3, 2>>, <<5, 1>>}

MapperOffsets == {<<-100, 1>>, <<0, 1>>, <<125, 2>>}

\* the most events of a behaviour of SpecPinch, after the pinch has started
MaxPinchSteps == 2

\* window.innerWidth x window.innerHeight at construction
InitialViewport == <<800, 600>>

\* the sizes a resize event can bring
Viewports == {<<800, 600>>, <<600, 800>>}

\* pointer positions (clientX, clientY); collinear, 250 px apart, so that
\* every distance between two touches is an integer
Points == {<<100, 100>>, <<250, 300>>, <<400, 500>>}

\* positions of the mouse pointer, and of the pointer at a wheel event
MousePoints == {<<100, 100>>, <<400, 500>>}

WheelPoints == {<<100, 100>>}

\* the pointer position that can also hit a control ([data-action])
ControlPoint == <<400, 500>>

\* deltaY of a wheel event
WheelDeltas == {-100, 0, 100}

Fingers == {1, 2}

ArrowKeys == {"ArrowLeft", "ArrowRight", "ArrowUp", "ArrowDown"}

(***************************************************************************)
(* The constructor                                                         *)
(***************************************************************************)
\* the fields the constructor assigns
Constructor ==
  [ minZoom |-> configuredMinZoom,
    currentZoom |-> R(1),
    translateX |-> R(0),
    translateY |-> R(0),
    initialScale |-> R(1),
    isDragging |-> FALSE,
    startX |-> R(0),
    startY |-> R(0),
    lastTouchDistance |-> R(0),
    initialPinchCenter |-> [x |-> R(0), y |-> R(0)],
    initialPinchImagePercent |-> [x |-> <<1, 2>>, y |-> <<1, 2>>],
    initialPinchZoom |-> R(1),
    initialPinchTranslate |-> [x |-> R(0), y |-> R(0)] ]

\* the page before any script has touched it: no inline transform, both
\* zoom buttons enabled
InitialDom ==
  [ transform |-> <<>>, zoomInDisabled |-> FALSE, zoomOutDisabled |-> FALSE ]

\* .image-container is position: fixed at 0,0 and 100vw x 100vh
GetBoundingClientRect(w) ==
  [ left |-> R(0), top |-> R(0),
    width |-> R(w.innerWidth), height |-> R(w.innerHeight) ]

(***************************************************************************)
(* calculateInitialScale                                                   *)
(***************************************************************************)
\* calculateInitialScale taking the smaller ratio: the image is contained in
\* the window instead of covering it
CalculateInitialScale_Contain(t, w, el) ==
  IF el.naturalWidth = 0 \/ el.naturalHeight = 0
  THEN [t EXCEPT !.initialScale = R(1), !.currentZoom = R(1)]
  ELSE LET scaleX == Div(R(w.innerWidth), R(el.naturalWidth))
           scaleY == Div(R(w.innerHeight), R(el.naturalHeight))
           scale == MathMin(scaleX, scaleY)
       IN  [t EXCEPT !.initialScale = scale,
                     !.currentZoom = scale,
                     !.minZoom = MathMax(MathMin(configuredMinZoom, scale),
                                         absoluteMinZoom)]

\* calculateInitialScale starting at twice the cover scale
CalculateInitialScale_Doubled(t, w, el) ==
  IF el.naturalWidth = 0 \/ el.naturalHeight = 0
  THEN [t EXCEPT !.initialScale = R(1), !.currentZoom = R(1)]
  ELSE LET scaleX == Div(R(w.innerWidth), R(el.naturalWidth))
           scaleY == Div(R(w.innerHeight), R(el.naturalHeight))
           scale == Mul(R(2), MathMax(scaleX, scaleY))
       IN  [t EXCEPT !.initialScale = scale,
                     !.currentZoom = scale,
                     !.minZoom = MathMax(MathMin(configuredMinZoom, scale),
                                         absoluteMinZoom)]

\* calculateInitialScale returning early on a zero natural size, without
\* the fallback
CalculateInitialScale_NoFallback(t, w, el) ==
  IF el.naturalWidth = 0 \/ el.naturalHeight = 0
  THEN t
  ELSE LET scaleX == Div(R(w.innerWidth), R(el.naturalWidth))
           scaleY == Div(R(w.innerHeight), R(el.naturalHeight))
           scale == MathMax(scaleX, scaleY)
       IN  [t EXCEPT !.initialScale = scale,
                     !.currentZoom = scale,
                     !.minZoom = MathMax(MathMin(configuredMinZoom, scale),
                                         absoluteMinZoom)]

\* calculateInitialScale()
CalculateInitialScale(t, w, el) ==
  IF el.naturalWidth = 0 \/ el.naturalHeight = 0
  THEN [t EXCEPT !.initialScale = R(1), !.currentZoom = R(1)]
  ELSE LET scaleX == Div(R(w.innerWidth), R(el.naturalWidth))
           scaleY == Div(R(w.innerHeight), R(el.naturalHeight))
           scale == MathMax(scaleX, scaleY)
       IN  [t EXCEPT !.initialScale = scale,
                     !.currentZoom = scale,
                     !.minZoom = MathMax(MathMin(configuredMinZoom, scale),
                                         absoluteMinZoom)]

(***************************************************************************)
(* calculateBounds, constrainTranslation, updateTransform, updateButtons   *)
(***************************************************************************)
\* one axis of calculateBounds: the largest legal |translation|
AxisBound(scaled, container) ==
  IF Le(scaled, container) THEN R(0)
  ELSE LET halfScaled == Div(scaled, R(2))
           halfContainer == Div(container, R(2))
           maxDistance == Sub(halfScaled, halfContainer)
       IN  MathMax(Sub(maxDistance, R(minVisibleArea)), R(0))

\* the object calculateBounds returns, from the two axes' bounds
Bounds(constrainedMaxX, constrainedMaxY) ==
  [minX |-> Neg(constrainedMaxX), maxX |-> constrainedMaxX,
   minY |-> Neg(constrainedMaxY), maxY |-> constrainedMaxY]

\* calculateBounds that pins the image whenever the zoom is at or below
\* initialScale, whatever its scaled size
CalculateBounds_RelativeToInitialScale(t, w, el) ==
  IF Le(t.currentZoom, t.initialScale) THEN Bounds(R(0), R(0))
  ELSE Bounds(AxisBound(Mul(R(el.naturalWidth), t.currentZoom), R(w.innerWidth)),
              AxisBound(Mul(R(el.naturalHeight), t.currentZoom), R(w.innerHeight)))

\* calculateBounds()
CalculateBounds(t, w, el) ==
  Bounds(AxisBound(Mul(R(el.naturalWidth), t.currentZoom), R(w.innerWidth)),
         AxisBound(Mul(R(el.naturalHeight), t.currentZoom), R(w.innerHeight)))

\* the two assignments of constrainTranslation
ConstrainTo(t, bounds) ==
  [t EXCEPT
     !.translateX = MathMax(bounds.minX, MathMin(bounds.maxX, t.translateX)),
     !.translateY = MathMax(bounds.minY, MathMin(bounds.maxY, t.translateY))]

ConstrainTranslation(t, w, el) == ConstrainTo(t, CalculateBounds(t, w, el))

\* m is the run of one handler: t the object, d the page, ran whether the
\* handler got past its early returns, clamped whether constrainTranslation
\* changed the translation the handler had assigned
\* the style.transform assignment of updateTransform, t2 being the object
\* after constrainTranslation
Render(m, t2) ==
  [m EXCEPT
     !.t = t2,
     !.d.transform = <<t2.translateX, t2.translateY, t2.currentZoom>>,
     !.clamped = <<t2.translateX, t2.translateY>> # <<m.t.translateX, m.t.translateY>>]

UpdateTransform(m, w, el) == Render(m, ConstrainTranslation(m.t, w, el))

\* updateButtons disabling a button only beyond its limit, not at it
UpdateButtons_Strict(m) ==
  [m EXCEPT !.d.zoomInDisabled = Lt(R(maxZoom), m.t.currentZoom),
            !.d.zoomOutDisabled = Lt(m.t.currentZoom, m.t.minZoom)]

\* updateButtons()
UpdateButtons(m) ==
  [m EXCEPT !.d.zoomInDisabled = Le(R(maxZoom), m.t.currentZoom),
            !.d.zoomOutDisabled = Le(m.t.currentZoom, m.t.minZoom)]

\* setupImage of initializeImageScale
SetupImage(m, w, el) ==
  UpdateButtons(UpdateTransform([m EXCEPT !.t = CalculateInitialScale(m.t, w, el)],
                                w, el))

\* a handler that returned before changing anything
Returned(m) == [m EXCEPT !.ran = FALSE]

(***************************************************************************)
(* Geometry mapping and zoom operations                                    *)
(***************************************************************************)
\* screenToImagePercent without the + 0.5 that moves the origin from the
\* image centre to its corner
ScreenToImagePercent_FromCentre(t, w, el, clientX, clientY) ==
  LET rect == GetBoundingClientRect(w)
      screenX == Sub(Sub(clientX, rect.left), Div(rect.width, R(2)))
      screenY == Sub(Sub(clientY, rect.top), Div(rect.height, R(2)))
      imageX == Div(Sub(screenX, t.translateX), t.currentZoom)
      imageY == Div(Sub(screenY, t.translateY), t.currentZoom)
  IN  [x |-> Div(imageX, R(el.naturalWidth)),
       y |-> Div(imageY, R(el.naturalHeight))]

\* screenToImagePercent(clientX, clientY)
ScreenToImagePercent(t, w, el, clientX, clientY) ==
  LET rect == GetBoundingClientRect(w)
      screenX == Sub(Sub(clientX, rect.left), Div(rect.width, R(2)))
      screenY == Sub(Sub(clientY, rect.top), Div(rect.height, R(2)))
      imageX == Div(Sub(screenX, t.translateX), t.currentZoom)
      imageY == Div(Sub(screenY, t.translateY), t.currentZoom)
  IN  [x |-> Add(Div(imageX, R(el.naturalWidth)), <<1, 2>>),
       y |-> Add(Div(imageY, R(el.naturalHeight)), <<1, 2>>)]

ImagePercentToScreen(el, percentX, percentY, zoom, translateX, translateY) ==
  LET imageX == Mul(Sub(percentX, <<1, 2>>), R(el.naturalWidth))
      imageY == Mul(Sub(percentY, <<1, 2>>), R(el.naturalHeight))
  IN  [x |-> Add(Mul(imageX, zoom), translateX),
       y |-> Add(Mul(imageY, zoom), translateY)]

\* the clamp without its lower limit: Math.min(zoom, maxZoom)
ClampZoom_NoMin(t, zoom) == MathMin(zoom, R(maxZoom))

\* Math.min(Math.max(zoom, minZoom), maxZoom)
ClampZoom(t, zoom) == MathMin(MathMax(zoom, t.minZoom), R(maxZoom))

\* the translation and zoom that zoomToPoint and the pinch branch of
\* handleTouchMove assign before updateTransform: the image point percent
\* placed at the client point (cx, cy) under newZoom
PlaceImagePoint(t, w, el, percent, cx, cy, newZoom) ==
  LET rect == GetBoundingClientRect(w)
      targetScreenX == Sub(Sub(cx, rect.left), Div(rect.width, R(2)))
      targetScreenY == Sub(Sub(cy, rect.top), Div(rect.height, R(2)))
      imageX == Mul(Sub(percent.x, <<1, 2>>), R(el.naturalWidth))
      imageY == Mul(Sub(percent.y, <<1, 2>>), R(el.naturalHeight))
  IN  [t EXCEPT !.translateX = Sub(targetScreenX, Mul(imageX, newZoom)),
                !.translateY = Sub(targetScreenY, Mul(imageY, newZoom)),
                !.currentZoom = newZoom]

\* zoomToPoint that shifts the anchor of a drag by the change it makes to the
\* translation, so that the drag goes on from the new translation
ZoomToPoint_MovesAnchor(m, w, el, clientX, clientY, deltaZoom) ==
  LET imagePercent == ScreenToImagePercent(m.t, w, el, clientX, clientY)
      oldZoom == m.t.currentZoom
      newZoom == ClampZoom(m.t, Add(m.t.currentZoom, deltaZoom))
      placed == PlaceImagePoint(m.t, w, el, imagePercent, clientX, clientY, newZoom)
      moved == ConstrainTranslation(placed, w, el)
  IN  IF newZoom = oldZoom THEN Returned(m)
      ELSE UpdateButtons(UpdateTransform(
             [m EXCEPT !.t = [placed EXCEPT
                !.startX = Sub(m.t.startX, Sub(moved.translateX, m.t.translateX)),
                !.startY = Sub(m.t.startY, Sub(moved.translateY, m.t.translateY))]],
             w, el))

\* zoomToPoint(clientX, clientY, deltaZoom)
ZoomToPoint(m, w, el, clientX, clientY, deltaZoom) ==
  LET imagePercent == ScreenToImagePercent(m.t, w, el, clientX, clientY)
      oldZoom == m.t.currentZoom
      newZoom == ClampZoom(m.t, Add(m.t.currentZoom, deltaZoom))
  IN  IF newZoom = oldZoom THEN Returned(m)
      ELSE UpdateButtons(UpdateTransform(
             [m EXCEPT !.t = PlaceImagePoint(m.t, w, el, imagePercent,
                                             clientX, clientY, newZoom)],
             w, el))

ZoomIn(m, w, el) ==
  ZoomToPoint(m, w, el, Div(R(w.innerWidth), R(2)), Div(R(w.innerHeight), R(2)),
              zoomStep)

ZoomOut(m, w, el) ==
  ZoomToPoint(m, w, el, Div(R(w.innerWidth), R(2)), Div(R(w.innerHeight), R(2)),
              Neg(zoomStep))

\* reset() that restores the zoom and leaves the translation
Reset_KeepsOffset(m, w, el) ==
  UpdateButtons(UpdateTransform([m EXCEPT !.t.currentZoom = m.t.initialScale], w, el))

\* reset() that moves the translation halfway to the centre
Reset_Eases(m, w, el) ==
  UpdateButtons(UpdateTransform(
    [m EXCEPT !.t.currentZoom = m.t.initialScale,
              !.t.translateX = Div(m.t.translateX, R(2)),
              !.t.translateY = Div(m.t.translateY, R(2))],
    w, el))

\* reset()
Reset(m, w, el) ==
  UpdateButtons(UpdateTransform(
    [m EXCEPT !.t.currentZoom = m.t.initialScale,
              !.t.translateX = R(0),
              !.t.translateY = R(0)],
    w, el))

\* handleWheel(e) zooming in only when deltaY < 0: a wheel event with
\* deltaY = 0 zooms out
HandleWheel_ZeroZoomsOut(m, w, el, clientX, clientY, deltaY) ==
  ZoomToPoint(m, w, el, R(clientX), R(clientY),
              IF deltaY < 0 THEN zoomStep ELSE Neg(zoomStep))

\* handleWheel(e) with the direction of the wheel reversed
HandleWheel_Reversed(m, w, el, clientX, clientY, deltaY) ==
  ZoomToPoint(m, w, el, R(clientX), R(clientY),
              IF deltaY > 0 THEN zoomStep ELSE Neg(zoomStep))

\* handleWheel(e)
HandleWheel(m, w, el, clientX, clientY, deltaY) ==
  ZoomToPoint(m, w, el, R(clientX), R(clientY),
              IF deltaY > 0 THEN Neg(zoomStep) ELSE zoomStep)

\* handleKeyboard(e) for the four arrow keys with the vertical keys reversed:
\* ArrowUp moves the image up
HandleArrowKey_UpMovesUp(m, w, el, key) ==
  UpdateTransform(
    CASE key = "ArrowLeft" -> [m EXCEPT !.t.translateX = Add(m.t.translateX, R(arrowStep))]
      [] key = "ArrowRight" -> [m EXCEPT !.t.translateX = Sub(m.t.translateX, R(arrowStep))]
      [] key = "ArrowUp" -> [m EXCEPT !.t.translateY = Sub(m.t.translateY, R(arrowStep))]
      [] key = "ArrowDown" -> [m EXCEPT !.t.translateY = Add(m.t.translateY, R(arrowStep))],
    w, el)

\* handleKeyboard(e) for the four arrow keys without its updateTransform()
HandleArrowKey_NoRender(m, w, el, key) ==
  CASE key = "ArrowLeft" -> [m EXCEPT !.t.translateX = Add(m.t.translateX, R(arrowStep))]
    [] key = "ArrowRight" -> [m EXCEPT !.t.translateX = Sub(m.t.translateX, R(arrowStep))]
    [] key = "ArrowUp" -> [m EXCEPT !.t.translateY = Add(m.t.translateY, R(arrowStep))]
    [] key = "ArrowDown" -> [m EXCEPT !.t.translateY = Sub(m.t.translateY, R(arrowStep))]

\* handleKeyboard(e) for the four arrow keys
HandleArrowKey(m, w, el, key) ==
  UpdateTransform(
    CASE key = "ArrowLeft" -> [m EXCEPT !.t.translateX = Add(m.t.translateX, R(arrowStep))]
      [] key = "ArrowRight" -> [m EXCEPT !.t.translateX = Sub(m.t.translateX, R(arrowStep))]
      [] key = "ArrowUp" -> [m EXCEPT !.t.translateY = Add(m.t.translateY, R(arrowStep))]
      [] key = "ArrowDown" -> [m EXCEPT !.t.translateY = Sub(m.t.translateY, R(arrowStep))],
    w, el)

(***************************************************************************)
(* Mouse drag                                                              *)
(***************************************************************************)
\* startDrag(e); onControl is e.target.closest('[data-action]') ||
\* e.target.closest('.zoom-controls')
StartDrag(m, clientX, clientY, onControl) ==
  IF onControl THEN Returned(m)
  ELSE [m EXCEPT !.t.isDragging = TRUE,
                 !.t.startX = Sub(R(clientX), m.t.translateX),
                 !.t.startY = Sub(R(clientY), m.t.translateY)]

\* drag(e) without the isDragging guard: every mouse move pans
Drag_Unguarded(m, w, el, clientX, clientY) ==
  UpdateTransform([m EXCEPT !.t.translateX = Sub(R(clientX), m.t.startX),
                            !.t.translateY = Sub(R(clientY), m.t.startY)],
                  w, el)

\* drag(e)
Drag(m, w, el, clientX, clientY) ==
  IF ~m.t.isDragging THEN Returned(m)
  ELSE UpdateTransform([m EXCEPT !.t.translateX = Sub(R(clientX), m.t.startX),
                                 !.t.translateY = Sub(R(clientY), m.t.startY)],
                       w, el)

\* endDrag(e)
EndDrag(m) ==
  IF ~m.t.isDragging THEN Returned(m) ELSE [m EXCEPT !.t.isDragging = FALSE]

(***************************************************************************)
(* Touch.  e.touches is modelled by tch: tch[f] is finger f, down or not,  *)
(* where, and whether it came down on a control.  The controls are         *)
(* siblings of .image-container (src/index.html), so the events of a       *)
(* finger that came down on a control do not reach the container's         *)
(* listeners, but the finger is listed in e.touches of the other finger's  *)
(* events.                                                                 *)
(***************************************************************************)
Up == [down |-> FALSE, pos |-> <<0, 0>>, ctl |-> FALSE]

\* e.touches.length
Length(tch) == Cardinality({f \in Fingers : tch[f].down})

\* e.touches[0]
First(tch) == tch[CHOOSE f \in Fingers : tch[f].down]

\* e.touches[1]
Second(tch) == tch[CHOOSE f \in Fingers : tch[f].down /\ tch[f] # First(tch)]

\* e.touches[0] and e.touches[1] of an event listing two touches; two
\* fingers at one point are two touches
Pair(tch) ==
  IF \E f, g \in Fingers : f # g /\ tch[f].down /\ tch[g].down /\ tch[f] = tch[g]
  THEN <<First(tch), First(tch)>>
  ELSE <<First(tch), Second(tch)>>

\* the distance between two touches
Distance(pair) ==
  MathHypot(pair[1].pos[1] - pair[2].pos[1], pair[1].pos[2] - pair[2].pos[2])

\* getTouchDistance(e) for an e.touches of two touches
GetTouchDistance(tch) == Distance(Pair(tch))

\* the midpoint of two touches
Center(pair) ==
  [x |-> Div(R(pair[1].pos[1] + pair[2].pos[1]), R(2)),
   y |-> Div(R(pair[1].pos[2] + pair[2].pos[2]), R(2))]

\* the two-touch branch that leaves the drag of the first touch active
StartPinch_KeepsDrag(m, w, el, center, distance) ==
  [m EXCEPT !.t.initialPinchCenter = center,
            !.t.initialPinchImagePercent =
               ScreenToImagePercent(m.t, w, el, center.x, center.y),
            !.t.initialPinchZoom = m.t.currentZoom,
            !.t.initialPinchTranslate = [x |-> m.t.translateX, y |-> m.t.translateY],
            !.t.lastTouchDistance = distance]

\* the two-touch branch that does not record the distance of the touches
StartPinch_NoDistance(m, w, el, center, distance) ==
  [m EXCEPT !.t.isDragging = FALSE,
            !.t.initialPinchCenter = center,
            !.t.initialPinchImagePercent =
               ScreenToImagePercent(m.t, w, el, center.x, center.y),
            !.t.initialPinchZoom = m.t.currentZoom,
            !.t.initialPinchTranslate = [x |-> m.t.translateX, y |-> m.t.translateY]]

\* the two-touch branch of handleTouchStart, center being the midpoint of
\* the touches and distance getTouchDistance(e)
StartPinch(m, w, el, center, distance) ==
  [m EXCEPT !.t.isDragging = FALSE,
            !.t.initialPinchCenter = center,
            !.t.initialPinchImagePercent =
               ScreenToImagePercent(m.t, w, el, center.x, center.y),
            !.t.initialPinchZoom = m.t.currentZoom,
            !.t.initialPinchTranslate = [x |-> m.t.translateX, y |-> m.t.translateY],
            !.t.lastTouchDistance = distance]

\* handleTouchStart(e); onControl as in StartDrag
HandleTouchStart(m, w, el, tch, onControl) ==
  IF onControl THEN Returned(m)
  ELSE IF Length(tch) = 1
  THEN [m EXCEPT !.t.isDragging = TRUE,
                 !.t.startX = Sub(R(First(tch).pos[1]), m.t.translateX),
                 !.t.startY = Sub(R(First(tch).pos[2]), m.t.translateY)]
  ELSE IF Length(tch) = 2
  THEN StartPinch(m, w, el, Center(Pair(tch)), GetTouchDistance(tch))
  ELSE m

\* the zoom of a pinch move scaled from the zoom the previous move left
PinchZoom_FromCurrentZoom(t, currentDistance) ==
  ClampZoom(t, Mul(t.currentZoom, Div(currentDistance, t.lastTouchDistance)))

\* newZoom of the two-touch branch of handleTouchMove: scaleFromInitial is
\* currentDistance / this.lastTouchDistance
PinchZoom(t, currentDistance) ==
  ClampZoom(t, Mul(t.initialPinchZoom, Div(currentDistance, t.lastTouchDistance)))

\* handleTouchMove(e) whose pinch branch returns, as zoomToPoint does, when
\* the zoom would not change
HandleTouchMove_SkipsUnchangedZoom(m, w, el, tch) ==
  IF Length(tch) = 1 /\ m.t.isDragging
  THEN UpdateTransform(
         [m EXCEPT !.t.translateX = Sub(R(First(tch).pos[1]), m.t.startX),
                   !.t.translateY = Sub(R(First(tch).pos[2]), m.t.startY)],
         w, el)
  ELSE IF Length(tch) = 2
  THEN LET newZoom == PinchZoom(m.t, GetTouchDistance(tch))
       IN  IF m.t.lastTouchDistance = R(0) \/ newZoom = m.t.currentZoom
           THEN Returned(m)
           ELSE UpdateButtons(UpdateTransform(
                  [m EXCEPT !.t = PlaceImagePoint(m.t, w, el, m.t.initialPinchImagePercent,
                                                  m.t.initialPinchCenter.x,
                                                  m.t.initialPinchCenter.y, newZoom)],
                  w, el))
  ELSE Returned(m)

\* handleTouchMove(e) that records the distance of each pinch move in
\* lastTouchDistance
HandleTouchMove_TracksDistance(m, w, el, tch) ==
  IF Length(tch) = 1 /\ m.t.isDragging
  THEN UpdateTransform(
         [m EXCEPT !.t.translateX = Sub(R(First(tch).pos[1]), m.t.startX),
                   !.t.translateY = Sub(R(First(tch).pos[2]), m.t.startY)],
         w, el)
  ELSE IF Length(tch) = 2
  THEN LET newZoom == PinchZoom(m.t, GetTouchDistance(tch))
       IN  IF m.t.lastTouchDistance = R(0) THEN Returned(m)
           ELSE UpdateButtons(UpdateTransform(
                  [m EXCEPT !.t = [PlaceImagePoint(m.t, w, el, m.t.initialPinchImagePercent,
                                                   m.t.initialPinchCenter.x,
                                                   m.t.initialPinchCenter.y, newZoom)
                                     EXCEPT !.lastTouchDistance = GetTouchDistance(tch)]],
                  w, el))
  ELSE Returned(m)

\* handleTouchMove(e)
HandleTouchMove(m, w, el, tch) ==
  IF Length(tch) = 1 /\ m.t.isDragging
  THEN UpdateTransform(
         [m EXCEPT !.t.translateX = Sub(R(First(tch).pos[1]), m.t.startX),
                   !.t.translateY = Sub(R(First(tch).pos[2]), m.t.startY)],
         w, el)
  ELSE IF Length(tch) = 2
  THEN LET newZoom == PinchZoom(m.t, GetTouchDistance(tch))
       IN  IF m.t.lastTouchDistance = R(0) THEN Returned(m)
           ELSE UpdateButtons(UpdateTransform(
                  [m EXCEPT !.t = PlaceImagePoint(m.t, w, el, m.t.initialPinchImagePercent,
                                                  m.t.initialPinchCenter.x,
                                                  m.t.initialPinchCenter.y, newZoom)],
                  w, el))
  ELSE Returned(m)

\* handleTouchEnd(e)
HandleTouchEnd(m) == [m EXCEPT !.t.isDragging = FALSE]

(***************************************************************************)
(* Events                                                                  *)
(***************************************************************************)
\* what the last handled event was: op, its pointer position (x, y), its key,
\* its deltaY and the number of touches it listed (n)
Event(op, x, y, key, deltaY, n) ==
  [op |-> op, x |-> x, y |-> y, key |-> key, deltaY |-> deltaY, n |-> n,
   ran |-> TRUE, clamped |-> FALSE]

\* the run of a handler, at its start
M == [t |-> this, d |-> dom, ran |-> TRUE, clamped |-> FALSE]

Down == {f \in Fingers : touches[f].down}

\* the finger a new touch is: the lowest one that is up
NewFinger ==
  CHOOSE f \in Fingers : ~touches[f].down /\ \A g \in Fingers : g < f => touches[g].down

\* the touch session after an event: "pinch" from a handled two-touch
\* touchstart until the next touchstart or touchend, "dropped" from the
\* touchend that leaves one touch of a pinch until the next touchstart or
\* touchend; "+mouse" is added once startDrag has run for a mousedown
\* since the pinch started
NextSession(ev, ran) ==
  CASE ev.op = "touchstart" -> IF ran /\ ev.n = 2 THEN "pinch" ELSE "none"
    [] ev.op = "touchend" ->
         IF ev.n # 1 THEN "none"
         ELSE IF session = "pinch" THEN "dropped"
         ELSE IF session = "pinch+mouse" THEN "dropped+mouse"
         ELSE "none"
    [] ev.op = "mousedown" ->
         IF ~ran THEN session
         ELSE IF session = "pinch" THEN "pinch+mouse"
         ELSE IF session = "dropped" THEN "dropped+mouse"
         ELSE session
    [] OTHER -> session

\* no drag has started yet
NoGrab == [active |-> FALSE, x |-> 0, y |-> 0, tx |-> R(0), ty |-> R(0)]

\* the drag session after an event: a mousedown or a single-touch touchstart
\* on the container starts one and records the pointer position and the
\* translation it started from; a mouseup or a touchend on the container
\* ends it
NextGrab(ev, ran) ==
  IF ran /\ (ev.op = "mousedown" \/ (ev.op = "touchstart" /\ ev.n = 1))
  THEN [active |-> TRUE, x |-> ev.x, y |-> ev.y,
        tx |-> this.translateX, ty |-> this.translateY]
  ELSE IF ev.op = "mouseup" \/ (ev.op = "touchend" /\ ran)
  THEN [grab EXCEPT !.active = FALSE]
  ELSE grab

\* one event handled, m2 being the run of its handler; pre keeps the state
\* the handler started from, steps counts the events still to come
Handled(ev, m2) ==
  /\ steps > 0
  /\ steps' = steps - 1
  /\ session' = NextSession(ev, m2.ran)
  /\ grab' = NextGrab(ev, m2.ran)
  /\ pre' = [t |-> this, w |-> window, el |-> imageElement, d |-> dom]
  /\ this' = m2.t
  /\ dom' = m2.d
  /\ last' = [ev EXCEPT !.ran = m2.ran, !.clamped = m2.clamped]

\* the image's load event: setupImage
Load ==
  \E sz \in ImageSizes :
    /\ ~imageElement.complete
    /\ imageElement' = [naturalWidth |-> sz[1], naturalHeight |-> sz[2], complete |-> TRUE]
    /\ Handled(Event("load", 0, 0, "", 0, 0), SetupImage(M, window, imageElement'))
    /\ UNCHANGED <<window, touches>>

\* a resize listener that recomputes the scale without reset()
Resize_NoReset ==
  \E v \in Viewports :
    /\ v # <<window.innerWidth, window.innerHeight>>
    /\ window' = [innerWidth |-> v[1], innerHeight |-> v[2]]
    /\ Handled(Event("resize", 0, 0, "", 0, 0),
               UpdateButtons(UpdateTransform(
                 [M EXCEPT !.t = CalculateInitialScale(this, window', imageElement)],
                 window', imageElement)))
    /\ UNCHANGED <<imageElement, touches>>

\* the window's resize event: calculateInitialScale, reset
Resize ==
  \E v \in Viewports :
    /\ v # <<window.innerWidth, window.innerHeight>>
    /\ window' = [innerWidth |-> v[1], innerHeight |-> v[2]]
    /\ Handled(Event("resize", 0, 0, "", 0, 0),
               Reset([M EXCEPT !.t = CalculateInitialScale(this, window', imageElement)],
                     window', imageElement))
    /\ UNCHANGED <<imageElement, touches>>

\* the zoom-in button, the keys + and =
ClickZoomIn ==
  /\ Handled(Event("zoomIn", 0, 0, "", 0, 0), ZoomIn(M, window, imageElement))
  /\ UNCHANGED <<window, imageElement, touches>>

\* the zoom-out button, the key -
ClickZoomOut ==
  /\ Handled(Event("zoomOut", 0, 0, "", 0, 0), ZoomOut(M, window, imageElement))
  /\ UNCHANGED <<window, imageElement, touches>>

\* the reset button, the key 0
ClickReset ==
  /\ Handled(Event("reset", 0, 0, "", 0, 0), Reset(M, window, imageElement))
  /\ UNCHANGED <<window, imageElement, touches>>

KeyArrow ==
  \E key \in ArrowKeys :
    /\ Handled(Event("arrow", 0, 0, key, 0, 0), HandleArrowKey(M, window, imageElement, key))
    /\ UNCHANGED <<window, imageElement, touches>>

MouseDown ==
  \E p \in MousePoints, onControl \in BOOLEAN :
    /\ onControl => p = ControlPoint
    /\ Handled(Event("mousedown", p[1], p[2], "", 0, 0), StartDrag(M, p[1], p[2], onControl))
    /\ UNCHANGED <<window, imageElement, touches>>

MouseMove ==
  \E p \in MousePoints :
    /\ Handled(Event("mousemove", p[1], p[2], "", 0, 0),
               Drag(M, window, imageElement, p[1], p[2]))
    /\ UNCHANGED <<window, imageElement, touches>>

MouseUp ==
  /\ Handled(Event("mouseup", 0, 0, "", 0, 0), EndDrag(M))
  /\ UNCHANGED <<window, imageElement, touches>>

WheelEvent ==
  \E p \in WheelPoints, deltaY \in WheelDeltas :
    /\ Handled(Event("wheel", p[1], p[2], "", deltaY, 0),
               HandleWheel(M, window, imageElement, p[1], p[2], deltaY))
    /\ UNCHANGED <<window, imageElement, touches>>

\* a finger comes down
TouchStart ==
  \E p \in Points, onControl \in BOOLEAN :
    /\ Down # Fingers
    /\ onControl => p = ControlPoint
    /\ touches' = [touches EXCEPT ![NewFinger] = [down |-> TRUE, pos |-> p, ctl |-> onControl]]
    /\ Handled(Event("touchstart", p[1], p[2], "", 0, Cardinality(Down) + 1),
               HandleTouchStart(M, window, imageElement, touches', onControl))
    /\ UNCHANGED <<window, imageElement>>

\* a finger that came down on the container moves
TouchMove ==
  \E f \in Down, p \in Points :
    /\ ~touches[f].ctl
    /\ p # touches[f].pos
    /\ touches' = [touches EXCEPT ![f].pos = p]
    /\ Handled(Event("touchmove", p[1], p[2], "", 0, Cardinality(Down)),
               HandleTouchMove(M, window, imageElement, touches'))
    /\ UNCHANGED <<window, imageElement>>

\* a finger lifts; handleTouchEnd runs when it had come down on the container
TouchEnd ==
  \E f \in Down :
    /\ touches' = [touches EXCEPT ![f] = Up]
    /\ Handled(Event("touchend", touches[f].pos[1], touches[f].pos[2], "", 0,
                     Cardinality(Down) - 1),
               IF touches[f].ctl THEN Returned(M) ELSE HandleTouchEnd(M))
    /\ UNCHANGED <<window, imageElement>>

(***************************************************************************)
(* Specification                                                           *)
(***************************************************************************)
\* the run of the constructor
Constructing == [t |-> Constructor, d |-> InitialDom, ran |-> TRUE, clamped |-> FALSE]

\* new FullscreenImageZoom(): the constructor, then init(), which runs
\* setupImage at once when the image is already complete
Constructed(sizes, completes, budget) ==
  /\ window = [innerWidth |-> InitialViewport[1], innerHeight |-> InitialViewport[2]]
  /\ \E complete \in completes :
       \E sz \in sizes :
         imageElement = IF complete
                        THEN [naturalWidth |-> sz[1], naturalHeight |-> sz[2], complete |-> TRUE]
                        ELSE [naturalWidth |-> 0, naturalHeight |-> 0, complete |-> FALSE]
  /\ \E m1 \in {IF imageElement.complete
                 THEN SetupImage(Constructing, window, imageElement)
                 ELSE Constructing} :
       /\ this = m1.t
       /\ dom = m1.d
  /\ touches = [f \in Fingers |-> Up]
  /\ last = Event("new", 0, 0, "", 0, 0)
  /\ pre = [t |-> Constructor, w |-> window, el |-> imageElement, d |-> InitialDom]
  /\ session = "none"
  /\ grab = NoGrab
  /\ steps = budget

Init == Constructed(ImageSizes, BOOLEAN, MaxSteps)

Next ==
  \/ Load
  \/ Resize
  \/ ClickZoomIn
  \/ ClickZoomOut
  \/ ClickReset
  \/ KeyArrow
  \/ MouseDown
  \/ MouseMove
  \/ MouseUp
  \/ WheelEvent
  \/ TouchStart
  \/ TouchMove
  \/ TouchEnd

Spec == Init /\ [][Next]_vars

\* touch gestures, interleaved with mouse drags, on an image that was
\* complete at construction
InitGesture == Constructed(GestureImageSizes, {TRUE}, MaxGestureSteps)

NextGesture ==
  \/ TouchStart
  \/ TouchMove
  \/ TouchEnd
  \/ MouseDown

SpecGesture == InitGesture /\ [][NextGesture]_vars

\* a pinch in progress: the image was complete at construction, a finger
\* came down on it at p1 and a second one at p2
InitPinch ==
  /\ window = [innerWidth |-> InitialViewport[1], innerHeight |-> InitialViewport[2]]
  /\ \E sz \in ImageSizes :
       imageElement = [naturalWidth |-> sz[1], naturalHeight |-> sz[2], complete |-> TRUE]
  /\ \E p1 \in Points, p2 \in Points :
       /\ p1 # p2
       /\ touches = [f \in Fingers |->
                       [down |-> TRUE, pos |-> IF f = 1 THEN p1 ELSE p2, ctl |-> FALSE]]
  /\ \E m1 \in {HandleTouchStart(SetupImage(Constructing, window, imageElement),
                                   window, imageElement,
                                   [touches EXCEPT ![2] = Up], FALSE)} :
       /\ pre = [t |-> m1.t, w |-> window, el |-> imageElement, d |-> m1.d]
       /\ \E m2 \in {HandleTouchStart(m1, window, imageElement, touches, FALSE)} :
            /\ this = m2.t
            /\ dom = m2.d
  /\ last = Event("touchstart", touches[2].pos[1], touches[2].pos[2], "", 0, 2)
  /\ session = "pinch"
  /\ grab = [active |-> TRUE, x |-> touches[1].pos[1], y |-> touches[1].pos[2],
             tx |-> pre.t.translateX, ty |-> pre.t.translateY]
  /\ steps = MaxPinchSteps

\* the moves of the pinch, interleaved with the buttons (or their keys) and
\* window resizes
NextPinch ==
  \/ TouchMove
  \/ ClickZoomIn
  \/ ClickZoomOut
  \/ ClickReset
  \/ Resize

SpecPinch == InitPinch /\ [][NextPinch]_vars

\* screenToImagePercent(x, y) called on its own: nothing changes but the
\* record of the call
MapPoint ==
  \E p \in Points :
    /\ Handled(Event("map", p[1], p[2], "", 0, 0), M)
    /\ UNCHANGED <<window, imageElement, touches>>

\* the geometry mapping as a pure function: a loaded image, a window and an
\* object whose transform is drawn from MapperZooms and MapperOffsets
InitMapper ==
  /\ \E v \in Viewports : window = [innerWidth |-> v[1], innerHeight |-> v[2]]
  /\ \E sz \in ImageSizes :
       imageElement = [naturalWidth |-> sz[1], naturalHeight |-> sz[2], complete |-> TRUE]
  /\ \E zoom \in MapperZooms, tx \in MapperOffsets, ty \in MapperOffsets :
       this = [Constructor EXCEPT !.currentZoom = zoom,
                                  !.translateX = tx,
                                  !.translateY = ty]
  /\ dom = [InitialDom EXCEPT
              !.transform = <<this.translateX, this.translateY, this.currentZoom>>]
  /\ touches = [f \in Fingers |-> Up]
  /\ last = Event("new", 0, 0, "", 0, 0)
  /\ pre = [t |-> this, w |-> window, el |-> imageElement, d |-> dom]
  /\ session = "none"
  /\ grab = NoGrab
  /\ steps = MaxMapperSteps

NextMapper == MapPoint

SpecMapper == InitMapper /\ [][NextMapper]_vars

(***************************************************************************)
(* Vocabulary of the properties                                            *)
(***************************************************************************)
\* the committed transform
Transform(t) == <<t.currentZoom, t.translateX, t.translateY>>

\* (x, y) lies within the bounds b
Within(b, x, y) ==
  /\ Le(b.minX, x)
  /\ Le(x, b.maxX)
  /\ Le(b.minY, y)
  /\ Le(y, b.maxY)

\* a client point, relative to the centre of the container
FromCentre(w, clientX, clientY) ==
  [x |-> Sub(clientX, Div(R(w.innerWidth), R(2))),
   y |-> Sub(clientY, Div(R(w.innerHeight), R(2)))]

\* where the image point percent is on screen under the committed transform
ScreenOf(percent) ==
  ImagePercentToScreen(imageElement, percent.x, percent.y,
                       this.currentZoom, this.translateX, this.translateY)

\* the cover scale of the window: max(width ratio, height ratio)
CoverScale ==
  MathMax(Div(R(window.innerWidth), R(imageElement.naturalWidth)),
          Div(R(window.innerHeight), R(imageElement.naturalHeight)))

HasNaturalSize == imageElement.naturalWidth # 0 /\ imageElement.naturalHeight # 0

\* the last event ran zoomToPoint, and the zoom changed
ZoomedToPoint == last.op \in {"wheel", "zoomIn", "zoomOut"} /\ last.ran

\* the client point the last zoomToPoint was anchored at
AnchorX == IF last.op = "wheel" THEN R(last.x) ELSE Div(R(window.innerWidth), R(2))

AnchorY == IF last.op = "wheel" THEN R(last.y) ELSE Div(R(window.innerHeight), R(2))

\* the last event was a pinch move that got past the zero-distance guard
PinchMoved == last.op = "touchmove" /\ last.n = 2 /\ last.ran

\* the last event was a two-touch touchstart on the container
PinchStarted == last.op = "touchstart" /\ last.n = 2 /\ last.ran

(***************************************************************************)
(* Properties                                                              *)
(***************************************************************************)
\* C1: in every reachable state minZoom <= currentZoom <= maxZoom, whatever
\* the image size and the window size
C1_ZoomWithinLimits ==
  Le(this.minZoom, this.currentZoom) /\ Le(this.currentZoom, R(maxZoom))

\* C2: after every handler the translation lies within the bounds
\* calculateBounds returns for the current zoom, image size and window size
C2_TranslationWithinBounds ==
  Within(CalculateBounds(this, window, imageElement), this.translateX, this.translateY)

\* C3: when zoomToPoint changed the zoom and constrainTranslation did not
\* alter the translation it computed, the image point that was under the
\* anchor point before the call is under it after the call
C3_ZoomToPointFixesAnchor ==
  (ZoomedToPoint /\ ~last.clamped)
    => ScreenOf(ScreenToImagePercent(pre.t, pre.w, pre.el, AnchorX, AnchorY))
         = FromCentre(window, AnchorX, AnchorY)

\* C4: after handleTouchStart with two touches no drag is active and the
\* pinch state is the one of the current transform and touches: the centre
\* is the midpoint, the image percent the image point under it, the zoom
\* the current zoom, the distance the distance of the touches
C4_SecondTouchStartsPinch ==
  PinchStarted
    => /\ ~this.isDragging
       /\ Transform(this) = Transform(pre.t)
       /\ this.initialPinchCenter = Center(Pair(touches))
       /\ this.initialPinchImagePercent
            = ScreenToImagePercent(this, window, imageElement,
                                   this.initialPinchCenter.x, this.initialPinchCenter.y)
       /\ this.initialPinchZoom = this.currentZoom
       /\ this.lastTouchDistance = GetTouchDistance(touches)

\* a two-touch touchstart arrived while a single-touch drag was active
C4_Witness == PinchStarted /\ pre.t.isDragging /\ this.lastTouchDistance # R(0)

C6_PinchKeepsCapturedPoint ==
  (PinchMoved /\ ~last.clamped)
    => ScreenOf(this.initialPinchImagePercent)
         = FromCentre(window, this.initialPinchCenter.x, this.initialPinchCenter.y)

\* C7: after reset() the zoom is initialScale and the translation (0, 0)
C7_ResetRestoresInitialView ==
  last.op = "reset"
    => Transform(this) = <<this.initialScale, R(0), R(0)>>

\* reset() ran on a zoomed and panned view
C7_Witness ==
  /\ last.op = "reset"
  /\ pre.t.currentZoom # pre.t.initialScale
  /\ pre.t.translateX # R(0)
  /\ pre.t.translateY # R(0)

\* C8: reset() applied to the state reset() left yields that state again:
\* the same zoom, translation, minZoom and initialScale
C8_ResetIdempotent ==
  last.op = "reset"
    => /\ Reset(M, window, imageElement).t = this
       /\ Reset(M, window, imageElement).d = dom

\* reset() ran and changed zoom and translation
C8_Witness ==
  /\ last.op = "reset"
  /\ pre.t.currentZoom # this.currentZoom
  /\ pre.t.translateX # this.translateX

\* C9 as stated: after a resize initialScale is the cover scale of the new
\* window, the zoom is initialScale, the translation is (0, 0) and within
\* the bounds of the new window
C9_ResizeRecomputesCover ==
  last.op = "resize"
    => /\ this.initialScale = CoverScale
       /\ Transform(this) = <<this.initialScale, R(0), R(0)>>
       /\ C2_TranslationWithinBounds

\* C9, amended: as stated when the natural size is nonzero; while it is
\* zero initialScale is the fallback 1
C9_ResizeRecomputesCoverOrFallback ==
  last.op = "resize"
    => /\ this.initialScale = IF HasNaturalSize THEN CoverScale ELSE R(1)
       /\ Transform(this) = <<this.initialScale, R(0), R(0)>>
       /\ C2_TranslationWithinBounds

\* a resize that changed the cover scale arrived on a zoomed, panned view
C9_Witness ==
  /\ last.op = "resize"
  /\ HasNaturalSize
  /\ pre.t.translateX # R(0)
  /\ pre.t.currentZoom # pre.t.initialScale
  /\ this.initialScale # pre.t.initialScale

\* C10: with a nonzero natural size calculateInitialScale (at construction,
\* load and resize) sets initialScale to max(width ratio, height ratio), so
\* that the image scaled by it covers the window on both axes and matches
\* it on one; the zoom is initialScale and minZoom is
\* max(min(0.5, initialScale), absoluteMinZoom)
C10_InitialScaleCovers ==
  (last.op \in {"new", "load", "resize"} /\ HasNaturalSize)
    => /\ this.initialScale = CoverScale
       /\ Le(R(window.innerWidth), Mul(R(imageElement.naturalWidth), this.initialScale))
       /\ Le(R(window.innerHeight), Mul(R(imageElement.naturalHeight), this.initialScale))
       /\ \/ Mul(R(imageElement.naturalWidth), this.initialScale) = R(window.innerWidth)
          \/ Mul(R(imageElement.naturalHeight), this.initialScale) = R(window.innerHeight)
       /\ this.currentZoom = this.initialScale
       /\ this.minZoom = MathMax(MathMin(<<1, 2>>, this.initialScale), <<1, 4>>)

\* calculateInitialScale ran at load for an image wider than the window
C10_Witness ==
  /\ last.op = "load"
  /\ HasNaturalSize
  /\ Lt(R(window.innerWidth), Mul(R(imageElement.naturalWidth), this.initialScale))
  /\ this.minZoom # this.initialScale

\* C11: after calculateInitialScale with a nonzero natural size (at
\* construction, load and resize) absoluteMinZoom <= minZoom <= initialScale
C11_MinZoomAtMostInitialScale ==
  (last.op \in {"new", "load", "resize"} /\ HasNaturalSize)
    => /\ Le(<<1, 4>>, this.minZoom)
       /\ Le(this.minZoom, this.initialScale)

\* the scaled extent of the image on an axis of natural extent natural
Scaled(natural) == Mul(R(natural), this.currentZoom)

\* C12: on each axis, when the scaled image is no larger than the window the
\* translation on that axis is exactly 0
C12_FittingAxisCentred ==
  /\ Le(Scaled(imageElement.naturalWidth), R(window.innerWidth))
       => this.translateX = R(0)
  /\ Le(Scaled(imageElement.naturalHeight), R(window.innerHeight))
       => this.translateY = R(0)

\* the bound the policy gives an axis: 0 when the scaled image fits,
\* max((scaled - viewport) / 2 - 100, 0) when it exceeds the window
PolicyBound(scaled, viewport) ==
  IF Lt(viewport, scaled)
  THEN MathMax(Sub(Div(Sub(scaled, viewport), R(2)), R(100)), R(0))
  ELSE R(0)

Visible(t, scaled, viewport) ==
  Sub(MathMin(Add(t, Div(scaled, R(2))), Div(viewport, R(2))),
      MathMax(Sub(t, Div(scaled, R(2))), Neg(Div(viewport, R(2)))))

\* C14: on every axis on which the scaled image exceeds the window at least
\* 100 px of the image lie inside the window
C14_MarginVisible ==
  /\ Lt(R(window.innerWidth), Scaled(imageElement.naturalWidth))
       => Le(R(100), Visible(this.translateX, Scaled(imageElement.naturalWidth),
                             R(window.innerWidth)))
  /\ Lt(R(window.innerHeight), Scaled(imageElement.naturalHeight))
       => Le(R(100), Visible(this.translateY, Scaled(imageElement.naturalHeight),
                             R(window.innerHeight)))

\* the last event started a drag: startDrag ran, or handleTouchStart with one
\* touch
DragStarted ==
  last.ran /\ (last.op = "mousedown" \/ (last.op = "touchstart" /\ last.n = 1))

\* the last event was a drag move: drag ran past its guard, or the
\* single-touch branch of handleTouchMove
DragMoved ==
  last.ran /\ (last.op = "mousemove" \/ (last.op = "touchmove" /\ last.n = 1))

\* v clamped to [-b, b]
ClampTo(b, v) == MathMax(Neg(b), MathMin(b, v))

\* C15: a drag start records anchor = pointer - translation and leaves the
\* transform; a drag move leaves zoom and anchor and commits
\* translation = clamp-to-bounds(pointer - anchor); a move that is not
\* clamped has shifted the translation the drag started from by the
\* displacement of the pointer since the drag start
C15_DragFollowsPointer ==
  /\ DragStarted
       => /\ this.isDragging
          /\ this.startX = Sub(R(last.x), this.translateX)
          /\ this.startY = Sub(R(last.y), this.translateY)
          /\ Transform(this) = Transform(pre.t)
  /\ DragMoved
       => /\ this.currentZoom = pre.t.currentZoom
          /\ <<this.startX, this.startY>> = <<pre.t.startX, pre.t.startY>>
          /\ this.translateX
               = ClampTo(PolicyBound(Scaled(imageElement.naturalWidth), R(window.innerWidth)),
                         Sub(R(last.x), pre.t.startX))
          /\ this.translateY
               = ClampTo(PolicyBound(Scaled(imageElement.naturalHeight), R(window.innerHeight)),
                         Sub(R(last.y), pre.t.startY))
  /\ (DragMoved /\ ~last.clamped)
       => /\ Sub(this.translateX, grab.tx) = R(last.x - grab.x)
          /\ Sub(this.translateY, grab.ty) = R(last.y - grab.y)

\* the last event was a mouse move or a move of a single touch
PointerMoved == last.op = "mousemove" \/ (last.op = "touchmove" /\ last.n = 1)

\* C16: a mouse move or single-touch move with no drag start since the last
\* mouseup / touchend leaves zoom and translation unchanged, and a mouseup or
\* touchend leaves them where the last move left them
C16_MoveNeedsDragSession ==
  /\ (PointerMoved /\ ~grab.active) => Transform(this) = Transform(pre.t)
  /\ last.op \in {"mouseup", "touchend"} => Transform(this) = Transform(pre.t)

\* the pointer moved after a drag had ended, over an image that can be
\* panned, to a point other than the one the drag started at
C16_Witness ==
  /\ last.op = "mousemove"
  /\ ~grab.active
  /\ grab.x # 0
  /\ last.x # grab.x
  /\ CalculateBounds(this, window, imageElement).maxX # R(0)
  /\ ~IsNaN(this.translateX)

\* v clamped to [lo, hi]: min(max(v, lo), hi)
ClampBetween(lo, hi, v) == MathMin(MathMax(v, lo), hi)

\* C17: a pinch move with a nonzero captured distance commits
\* zoom = clamp(initialPinchZoom * currentDistance / lastTouchDistance,
\* minZoom, maxZoom), whatever zoom the previous move left
C17_PinchZoomFromCapture ==
  (last.op = "touchmove" /\ last.n = 2 /\ pre.t.lastTouchDistance # R(0))
    => /\ last.ran
       /\ this.currentZoom
            = ClampBetween(pre.t.minZoom, R(5),
                           Mul(pre.t.initialPinchZoom,
                               Div(Distance(Pair(touches)), pre.t.lastTouchDistance)))

\* a pinch move changed the zoom after an earlier move of the pinch had
\* changed it
C17_Witness ==
  /\ last.op = "touchmove"
  /\ last.n = 2
  /\ pre.t.lastTouchDistance # R(0)
  /\ pre.t.currentZoom # pre.t.initialPinchZoom
  /\ this.currentZoom # pre.t.currentZoom
  /\ this.currentZoom # pre.t.initialPinchZoom

\* the values handleTouchStart captures at a two-touch touchstart
PinchState(t) ==
  <<t.initialPinchCenter, t.initialPinchImagePercent, t.initialPinchZoom,
    t.lastTouchDistance>>

\* C18: every event other than a two-touch touchstart on the container
\* leaves initialPinchCenter, initialPinchImagePercent, initialPinchZoom and
\* lastTouchDistance unchanged
C18_PinchCaptureFixed == ~PinchStarted => PinchState(this) = PinchState(pre.t)

\* a pinch move changed the zoom while the touches' midpoint and distance
\* were no longer the captured ones
C18_Witness ==
  /\ PinchMoved
  /\ this.currentZoom # pre.t.currentZoom
  /\ this.initialPinchCenter # Center(Pair(touches))
  /\ this.lastTouchDistance # GetTouchDistance(touches)
  /\ this.initialPinchZoom # this.currentZoom

\* C19: a two-touch move handled while the captured distance is 0 leaves
\* zoom and translation unchanged as long as the touches are at distance 0;
\* once it observes a nonzero distance the pinch is no longer ignored: the
\* move takes effect, or the distance is recorded for the moves that follow
C19_ZeroDistanceGuardLifts ==
  (last.op = "touchmove" /\ last.n = 2 /\ pre.t.lastTouchDistance = R(0))
    => IF Distance(Pair(touches)) = R(0)
       THEN Transform(this) = Transform(pre.t)
       ELSE last.ran \/ this.lastTouchDistance # R(0)

\* deltaZoom of the zoomToPoint call of the last event
DeltaZoom ==
  IF last.op = "zoomIn" \/ (last.op = "wheel" /\ last.deltaY <= 0)
  THEN <<1, 2>> ELSE <<-1, 2>>

\* the last event called zoomToPoint with a delta that the limits
\* [minZoom, maxZoom] absorb entirely
ZoomAbsorbed ==
  /\ last.op \in {"wheel", "zoomIn", "zoomOut"}
  /\ ClampBetween(pre.t.minZoom, R(5), Add(pre.t.currentZoom, DeltaZoom))
       = pre.t.currentZoom

\* C20: zoomToPoint whose clamped target zoom equals the current zoom
\* changes nothing: zoom, translation and the rest of the object and the
\* page are as before, whatever the anchor point
C20_ZoomToPointNoOpAtLimit ==
  ZoomAbsorbed => (~last.ran /\ this = pre.t /\ dom = pre.d)

\* zoomToPoint was called at maxZoom, from the wheel away from the centre
C20_Witness ==
  /\ ZoomAbsorbed
  /\ last.op = "wheel"
  /\ pre.t.currentZoom = R(5)
  /\ HasNaturalSize

\* C21: zoomIn() yields zoom = min(currentZoom + zoomStep, maxZoom) and
\* zoomOut() yields zoom = max(currentZoom - zoomStep, minZoom)
C21_ButtonStepClamped ==
  /\ last.op = "zoomIn"
       => this.currentZoom = MathMin(Add(pre.t.currentZoom, <<1, 2>>), R(5))
  /\ last.op = "zoomOut"
       => this.currentZoom = MathMax(Sub(pre.t.currentZoom, <<1, 2>>), pre.t.minZoom)

\* the object after zoomToPoint at the cursor of the last event, by delta,
\* from the state the event found
ZoomedAtCursor(delta) ==
  ZoomToPoint([t |-> pre.t, d |-> pre.d, ran |-> TRUE, clamped |-> FALSE],
              window, imageElement, R(last.x), R(last.y), delta).t

\* C22: a wheel event with deltaY > 0 zooms out and one with deltaY < 0 zooms
\* in, by one zoomStep clamped to [minZoom, maxZoom], at the cursor: the
\* object is the one zoomToPoint at the cursor leaves
C22_WheelStepsAtCursor ==
  /\ (last.op = "wheel" /\ last.deltaY > 0)
       => /\ this.currentZoom
               = ClampBetween(pre.t.minZoom, R(5), Sub(pre.t.currentZoom, <<1, 2>>))
          /\ this = ZoomedAtCursor(<<-1, 2>>)
  /\ (last.op = "wheel" /\ last.deltaY < 0)
       => /\ this.currentZoom
               = ClampBetween(pre.t.minZoom, R(5), Add(pre.t.currentZoom, <<1, 2>>))
          /\ this = ZoomedAtCursor(<<1, 2>>)

\* a wheel-down event away from the centre zoomed out by one step and moved
\* the image
C22_Witness ==
  /\ last.op = "wheel"
  /\ last.deltaY > 0
  /\ HasNaturalSize
  /\ this.currentZoom = Sub(pre.t.currentZoom, <<1, 2>>)
  /\ this.translateX # pre.t.translateX
  /\ ~IsNaN(this.translateX)

\* C23: zoomIn() and zoomOut() that change the zoom scale the translation by
\* newZoom / oldZoom before it is clamped to the bounds, and leave a centred
\* image centred
C23_ButtonZoomKeepsCentre ==
  (last.op \in {"zoomIn", "zoomOut"} /\ last.ran)
    => /\ this.translateX
            = ClampTo(PolicyBound(Scaled(imageElement.naturalWidth), R(window.innerWidth)),
                      Mul(pre.t.translateX, Div(this.currentZoom, pre.t.currentZoom)))
       /\ this.translateY
            = ClampTo(PolicyBound(Scaled(imageElement.naturalHeight), R(window.innerHeight)),
                      Mul(pre.t.translateY, Div(this.currentZoom, pre.t.currentZoom)))
       /\ (pre.t.translateX = R(0) /\ pre.t.translateY = R(0))
            => (this.translateX = R(0) /\ this.translateY = R(0))

\* the image percent of the point of the last call of the mapping, under the
\* current transform
MappedPercent ==
  ScreenToImagePercent(this, window, imageElement, R(last.x), R(last.y))

\* C24 as stated: imagePercentToScreen of screenToImagePercent(x, y), under
\* the same zoom and translation, returns (x, y)
C24_RoundTripReturnsClientPoint ==
  last.op = "map" => ScreenOf(MappedPercent) = [x |-> R(last.x), y |-> R(last.y)]

\* C24, amended: it returns (x, y) relative to the centre of the container,
\* (x - width / 2, y - height / 2)
C24_RoundTripReturnsPointFromCentre ==
  last.op = "map" => ScreenOf(MappedPercent) = FromCentre(window, R(last.x), R(last.y))

\* the mapping was applied to a point away from the centre under a zoom
\* other than 1 and a translation other than (0, 0)
C24_Witness ==
  /\ last.op = "map"
  /\ this.currentZoom = <<3, 2>>
  /\ this.translateX = <<125, 2>>
  /\ this.translateY = <<-100, 1>>
  /\ last.x = 100
  /\ MappedPercent.x # <<1, 2>>

\* C25: zoom and translation are never NaN or infinite, and a zoomIn, zoomOut,
\* wheel or pinch handled while the natural size of the image is still zero
\* leaves the transform unchanged
C25_TransformDefined ==
  /\ IsFinite(this.currentZoom)
  /\ IsFinite(this.translateX)
  /\ IsFinite(this.translateY)
  /\ (/\ last.op \in {"zoomIn", "zoomOut", "wheel", "touchmove"}
      /\ ~HasNaturalSize)
       => Transform(this) = Transform(pre.t)

\* the state calculateInitialScale() leaves when the last event (a resize or
\* the end of loading) called it with a natural width or height of zero
ScaleOfZeroSize == CalculateInitialScale(pre.t, window, imageElement)

C27_RenderedIsCommitted ==
  /\ dom.transform # <<>>
       => dom.transform = <<this.translateX, this.translateY, this.currentZoom>>
  /\ dom.transform = <<>> => Transform(this) = Transform(Constructor)
  /\ ConstrainTranslation(this, window, imageElement) = this

\* a drag moved the image, constrainTranslation cut the move short, and the
\* cut translation is the one rendered
C27_Witness ==
  /\ last.op = "mousemove"
  /\ last.clamped
  /\ Transform(this) # Transform(pre.t)
  /\ dom.transform = <<this.translateX, this.translateY, this.currentZoom>>
  /\ dom.transform # pre.d.transform

\* C28: when the image load completes, zoom = initialScale and the
\* translation is (0, 0), whatever was handled between construction and load
C28_LoadShowsInitialView ==
  last.op = "load" =>
    /\ this.currentZoom = this.initialScale
    /\ this.translateX = R(0)
    /\ this.translateY = R(0)

\* C29: zoomIn and a wheel-up event never decrease the zoom, and zoomOut and
\* a wheel-down event never increase it
C29_ZoomDirection ==
  /\ (last.op = "zoomIn" \/ (last.op = "wheel" /\ last.deltaY < 0))
       => Le(pre.t.currentZoom, this.currentZoom)
  /\ (last.op = "zoomOut" \/ (last.op = "wheel" /\ last.deltaY > 0))
       => Le(this.currentZoom, pre.t.currentZoom)

\* C30: a two-touch move whose session never ran the two-touch capture (the
\* second touch landed on a control, so no two-touch touchstart was handled
\* since the touch count last changed) leaves the transform unchanged: it
\* applies nothing left over from an earlier pinch
C30_NoStalePinch ==
  (/\ last.op = "touchmove"
   /\ last.n = 2
   /\ session \notin {"pinch", "pinch+mouse"})
    => Transform(this) = Transform(pre.t)

\* the anchor and the flag of a drag
DragState(t) == <<t.isDragging, t.startX, t.startY>>

\* C31: a drag move commits clamp(pointer - anchor), the anchor being the
\* pointer minus the translation at the drag start, whatever has changed the
\* translation since; a wheel zoom, button zoom, arrow key, reset or resize
\* leaves the anchor and the drag flag as they were
C31_DragOverwritesInterleaved ==
  /\ (DragMoved /\ grab.active)
       => /\ this.translateX
               = ClampTo(PolicyBound(Scaled(imageElement.naturalWidth), R(window.innerWidth)),
                         Sub(R(last.x), Sub(R(grab.x), grab.tx)))
          /\ this.translateY
               = ClampTo(PolicyBound(Scaled(imageElement.naturalHeight), R(window.innerHeight)),
                         Sub(R(last.y), Sub(R(grab.y), grab.ty)))
  /\ last.op \in {"wheel", "zoomIn", "zoomOut", "arrow", "reset", "resize"}
       => DragState(this) = DragState(pre.t)

\* a wheel zoom handled during a drag moved the image, and the drag move that
\* followed put it where the pointer and the drag's anchor say
C31_Witness ==
  /\ last.op = "mousemove"
  /\ last.ran
  /\ ~last.clamped
  /\ grab.active
  /\ this.currentZoom # this.initialScale
  /\ pre.t.translateX # grab.tx
  /\ this.translateX # pre.t.translateX
  /\ this.translateX = Add(grab.tx, R(last.x - grab.x))
  /\ IsFinite(this.translateX)

\* an object that shares with t only what a pinch start captures, and minZoom
CapturedOnly(t) ==
  [Constructor EXCEPT !.minZoom = t.minZoom,
                      !.initialPinchCenter = t.initialPinchCenter,
                      !.initialPinchImagePercent = t.initialPinchImagePercent,
                      !.initialPinchZoom = t.initialPinchZoom,
                      !.lastTouchDistance = t.lastTouchDistance]

\* the run of handleTouchMove on the object t with the current touches
PinchMoveOf(t) ==
  HandleTouchMove([t |-> t, d |-> InitialDom, ran |-> TRUE, clamped |-> FALSE],
                  window, imageElement, touches).t

\* C32: the zoom and translation a pinch move commits are those it commits
\* on an object that shares only the captured values and minZoom with the
\* one it ran on, so whatever a reset, a button zoom or a resize handled
\* mid-pinch had left is overwritten; the same move repeated changes nothing
C32_PinchHistoryIndependent ==
  PinchMoved =>
    /\ Transform(this) = Transform(PinchMoveOf(CapturedOnly(pre.t)))
    /\ Transform(PinchMoveOf(this)) = Transform(this)

\* a pinch move after a resize handled mid-pinch: the window is no longer
\* the one the pinch started in, and the move replaced the view the resize
\* had reset
C32_Witness ==
  /\ PinchMoved
  /\ <<window.innerWidth, window.innerHeight>> # InitialViewport
  /\ last.op = "touchmove"
  /\ pre.t.currentZoom = pre.t.initialScale
  /\ pre.t.translateX = R(0)
  /\ this.currentZoom # pre.t.currentZoom
  /\ this.translateX # R(0)

\* C33: on every axis on which the scaled image exceeds the window the image
\* covers the whole window, and the bounds are symmetric about 0, so that
\* translation (0, 0) is within them
C33_PannedAxisCoversViewport ==
  /\ Lt(R(window.innerWidth), Scaled(imageElement.naturalWidth))
       => Visible(this.translateX, Scaled(imageElement.naturalWidth), R(window.innerWidth))
            = R(window.innerWidth)
  /\ Lt(R(window.innerHeight), Scaled(imageElement.naturalHeight))
       => Visible(this.translateY, Scaled(imageElement.naturalHeight), R(window.innerHeight))
            = R(window.innerHeight)
  /\ CalculateBounds(this, window, imageElement).minX
       = Neg(CalculateBounds(this, window, imageElement).maxX)
  /\ CalculateBounds(this, window, imageElement).minY
       = Neg(CalculateBounds(this, window, imageElement).maxY)
  /\ Within(CalculateBounds(this, window, imageElement), R(0), R(0))

\* C34: with a nonzero natural size, whenever zoom = initialScale at least
\* one axis has bounds [0, 0]
C34_InitialViewPansOneAxisAtMost ==
  (HasNaturalSize /\ this.currentZoom = this.initialScale)
    => \/ /\ CalculateBounds(this, window, imageElement).minX = R(0)
          /\ CalculateBounds(this, window, imageElement).maxX = R(0)
       \/ /\ CalculateBounds(this, window, imageElement).minY = R(0)
          /\ CalculateBounds(this, window, imageElement).maxY = R(0)

\* a reset brought the zoom back to initialScale, where the image can be
\* panned along the x axis and not along the y axis
C34_Witness ==
  /\ last.op = "reset"
  /\ HasNaturalSize
  /\ pre.t.currentZoom # this.initialScale
  /\ this.currentZoom = this.initialScale
  /\ CalculateBounds(this, window, imageElement).maxX # R(0)
  /\ CalculateBounds(this, window, imageElement).maxY = R(0)

\* C35: after a load, resize, reset, zoomIn, zoomOut, wheel event or pinch
\* move the zoom-in button is disabled exactly when zoom >= maxZoom and the
\* zoom-out button exactly when zoom <= minZoom
C35_ButtonsMatchLimits ==
  (last.op \in {"load", "resize", "reset", "zoomIn", "zoomOut", "wheel"} \/ PinchMoved)
    => /\ dom.zoomInDisabled <=> Le(R(5), this.currentZoom)
       /\ dom.zoomOutDisabled <=> Le(this.currentZoom, this.minZoom)

\* a zoom out reached minZoom and disabled the zoom-out button, which was
\* enabled before
C35_Witness ==
  /\ last.op = "zoomOut"
  /\ last.ran
  /\ this.currentZoom = this.minZoom
  /\ dom.zoomOutDisabled
  /\ ~pre.d.zoomOutDisabled
  /\ ~dom.zoomInDisabled

\* the signed step of the last arrow key on the x axis and on the y axis
ArrowDX == IF last.key = "ArrowLeft" THEN R(50) ELSE IF last.key = "ArrowRight" THEN R(-50) ELSE R(0)

ArrowDY == IF last.key = "ArrowUp" THEN R(50) ELSE IF last.key = "ArrowDown" THEN R(-50) ELSE R(0)

\* C36: an arrow key changes the translation of its axis by +50 (ArrowLeft,
\* ArrowUp) or -50 (ArrowRight, ArrowDown), clamped to the bounds, and leaves
\* zoom, minZoom, initialScale and the translation of the other axis
C36_ArrowPansOneAxis ==
  last.op = "arrow" =>
    /\ this.translateX
         = IF last.key \in {"ArrowLeft", "ArrowRight"}
           THEN ClampTo(PolicyBound(Scaled(imageElement.naturalWidth), R(window.innerWidth)),
                        Add(pre.t.translateX, ArrowDX))
           ELSE pre.t.translateX
    /\ this.translateY
         = IF last.key \in {"ArrowUp", "ArrowDown"}
           THEN ClampTo(PolicyBound(Scaled(imageElement.naturalHeight), R(window.innerHeight)),
                        Add(pre.t.translateY, ArrowDY))
           ELSE pre.t.translateY
    /\ this.currentZoom = pre.t.currentZoom
    /\ this.minZoom = pre.t.minZoom
    /\ this.initialScale = pre.t.initialScale

\* ArrowUp moved the image 50 px down its y axis, within the bounds, while
\* its x translation, which is not 0, stayed
C36_Witness ==
  /\ last.op = "arrow"
  /\ last.key = "ArrowUp"
  /\ ~last.clamped
  /\ this.translateY = Add(pre.t.translateY, R(50))
  /\ IsFinite(this.translateX)
  /\ this.translateX # R(0)
  /\ this.translateX = pre.t.translateX

\* the object after zoomIn() then zoomOut() from the current state
ZoomedInThenOut ==
  ZoomOut(ZoomIn(M, window, imageElement), window, imageElement).t

\* C37: from every state with minZoom <= zoom and zoom + zoomStep <= maxZoom,
\* zoomIn() followed by zoomOut() gives back the same zoom and translation
C37_ZoomInThenOutRestores ==
  (Le(this.minZoom, this.currentZoom) /\ Le(Add(this.currentZoom, <<1, 2>>), R(5)))
    => Transform(ZoomedInThenOut) = Transform(this)

\* C38: a wheel event is zoomToPoint at the cursor with -zoomStep when
\* deltaY > 0 and with +zoomStep otherwise, deltaY = 0 included
C38_WheelZoomsInUnlessPositive ==
  last.op = "wheel" =>
    /\ this = ZoomedAtCursor(IF last.deltaY > 0 THEN <<-1, 2>> ELSE <<1, 2>>)
    /\ last.deltaY = 0
         => this.currentZoom
              = ClampBetween(pre.t.minZoom, R(5), Add(pre.t.currentZoom, <<1, 2>>))

\* a wheel event with deltaY = 0 raised the zoom by zoomStep
C38_Witness ==
  /\ last.op = "wheel"
  /\ last.deltaY = 0
  /\ last.ran
  /\ HasNaturalSize
  /\ this.currentZoom = Add(pre.t.currentZoom, <<1, 2>>)

====
